---- MODULE Spec2Model ----
(***************************************************************************)
(* PrivateAppUserTokenManager (src/http/index.ts, lines 266-493): the      *)
(* per-account manager of private-app user tokens, its token cache, its    *)
(* refresh timers and the promises it has in flight.                       *)
(*                                                                         *)
(* Time is counted in minutes.  The three token endpoints and the scope    *)
(* check are remote: what they answer is an input of the action that       *)
(* receives the answer.                                                    *)
(***************************************************************************)
EXTENDS Integers, Sequences, FiniteSets, Bags

\* ---------------------------------------------------------------- bounds
\* The clock stops at MaxNow minutes.
MaxNow == 1
\* Promises (getPrivateAppToken calls and refreshToken callbacks) pending at
\* the same time.
MaxInFlight == 2

\* Entries config.accounts can hold.
MaxAccounts == 3

\* ------------------------------------------------------------- constants
\* moment.subtract(5, 'minutes') / moment.add(5, 'minutes')
FiveMinutes == 5

USER_TOKEN_READ == "developer.private_app.temporary_token.read"
USER_TOKEN_WRITE == "developer.private_app.temporary_token.write"

\* The scope grants the scope check can report.
Grants == SUBSET {USER_TOKEN_READ, USER_TOKEN_WRITE}

\* What the callers and the endpoints can supply: the app ids asked for, the
\* scope-group lists asked for or carried by a remote token, the
\* userTokenKey values handed out, expiresAt in minutes after the answer
\* (already expired, inside the five minutes, later), and whether the create
\* and update endpoints may answer a token with other scope groups than the
\* request asked for.
MainInputs ==
  [apps |-> {1},
   scopes |-> {{"a"}, {"a", "b"}},
   keys |-> {"k1", "k2"},
   offsets |-> {0, 1, 6},
   short |-> FALSE]

\* The same with endpoints that never answer with a token that has already
\* expired.
FreshInputs == [MainInputs EXCEPT !.offsets = {1, 6}]

\* Endpoints whose tokens expire four minutes or exactly five minutes after
\* the answer: either side of the five-minute comparison of lines 417-420.
MarginInputs == [MainInputs EXCEPT !.offsets = {4, 5}]

\* this.accountId, the argument of the constructor (line 277).
accountId == 7

\* Endpoints that answer tokens already expired, expiring now, in exactly five
\* minutes and later.
DelayInputs ==
  [apps |-> {1}, scopes |-> {{"a"}}, keys |-> {"k1"}, offsets |-> {-1, 0, 5, 6},
   short |-> FALSE]

\* Create and update endpoints that may answer a token with fewer scope
\* groups than the request asked for.
ShortInputs ==
  [apps |-> {1}, scopes |-> {{"a"}, {"a", "b"}}, keys |-> {"k1"},
   offsets |-> {6}, short |-> TRUE]

\* Callers that ask for two apps.
TwoAppInputs ==
  [apps |-> {1, 2},
   scopes |-> {{"a"}},
   keys |-> {"k1"},
   offsets |-> {1, 6},
   short |-> FALSE]

VARIABLES
  enabled,            \* this.enabled
  initialized,        \* an init() call has completed (the code keeps no such flag)
  tokenMap,           \* this.tokenMap: appId -> PrivateAppUserTokenResponse
  tokenMapIntervalId, \* this.tokenMapIntervalId: appId -> timer handle
  timers,             \* the runtime's interval timers that were not cleared
  pending,            \* the pending getPrivateAppToken / refreshToken promises
  now,                \* moment.utc(), in minutes
  last,               \* what the latest step sent, returned or threw
  config,             \* CLIConfiguration: this.config
  useEnvConfig,       \* CLIConfiguration: this.useEnvConfig
  reply               \* what the latest CLIConfiguration or http step did

\* The state of the PrivateAppUserTokenManager.
managerVars == <<enabled, initialized, tokenMap, tokenMapIntervalId, timers,
                 pending, now, last>>

\* The state of the CLIConfiguration singleton and of the http helpers.
accountVars == <<config, useEnvConfig, reply>>

vars == <<enabled, initialized, tokenMap, tokenMapIntervalId, timers, pending,
          now, last, config, useEnvConfig, reply>>

\* ------------------------------------------------------------ data types

\* new Map(): a function whose domain is the set of keys present.
EmptyMap == [a \in {} |-> 0]

\* MapSet that keeps no other key.
MapSetAlone(m, k, v) == [a \in {k} |-> v]

\* Map.set(k, v)
MapSet(m, k, v) == [a \in (DOMAIN m) \cup {k} |-> IF a = k THEN v ELSE m[a]]

\* PrivateAppUserTokenResponse
Token(key, scopes, expiresAt) ==
  [userTokenKey |-> key, scopeGroups |-> scopes, expiresAt |-> expiresAt]

\* An answer that carries no token (undefined).
NoToken == Token("", {}, 0)

\* The tokens an endpoint can answer with now, with scope groups in S.
TokensNow(E, S) ==
  {Token(k, s, now + d) : k \in E.keys, s \in S, d \in E.offsets}

\* A pending promise: a getPrivateAppToken call awaiting the answer to its
\* fetch, create or update request, or a refreshToken callback awaiting the
\* answer to its update request.  sentScopes is the scope-group list of the
\* create or update request awaited.  fetched, hadEntry and stale are
\* bookkeeping: how the fetch was answered; the cache had an entry for appId
\* when the call began; cleanup() ran while the refresh was pending.
Call(kind, appId, scopeGroups, stage, hadEntry) ==
  [kind |-> kind, appId |-> appId, scopeGroups |-> scopeGroups,
   stage |-> stage, sentScopes |-> {}, fetched |-> "", hadEntry |-> hadEntry,
   stale |-> FALSE]

\* How fetchPrivateAppUserToken answered.
Fetched(status) ==
  CASE status = 200 -> "found"
    [] status = 404 -> "notFound"
    [] OTHER -> "failed"

\* The diagnostic string of the catch block of getPrivateAppToken, lines
\* 343-348: the message getAxiosErrorWithContext makes of an AxiosError, the
\* message of any other Error, or 'Unknown error'.
messageDetail(cause) ==
  CASE cause = "axios" -> "api error with context"
    [] cause = "error" -> "error message"
    [] OTHER -> "Unknown error"

NoError == [identifier |-> "", accountId |-> 0, appId |-> 0, messageDetail |-> ""]

\* apiError that leaves the account and the app out.
apiErrorAnonymous(appId, cause) ==
  [identifier |-> "errors.apiError", accountId |-> 0, appId |-> 0,
   messageDetail |-> messageDetail(cause)]

\* throwErrorWithMessage(errors.apiError, {accountId, appId, messageDetail}),
\* lines 349-357.
apiError(appId, cause) ==
  [identifier |-> "errors.apiError", accountId |-> accountId, appId |-> appId,
   messageDetail |-> messageDetail(cause)]

\* What a step shows to the outside: nothing, a request sent to an endpoint,
\* a settled promise, or the end of an init() call.  found is the token the
\* fetch request was answered with in this step; unhandled says that the
\* promise rejected and nothing awaits it or catches its rejection; prev
\* says what the step before was, where a step records it.
Nothing ==
  [op |-> "none", kind |-> "", appId |-> 0, scopeGroups |-> {},
   hadEntry |-> FALSE, stale |-> FALSE, prev |-> "",
   fetched |-> "", calls |-> <<>>,
   request |-> "", sentKey |-> "", sentScopes |-> {},
   outcome |-> "", value |-> "", token |-> NoToken, expired |-> FALSE,
   found |-> NoToken, error |-> NoError, unhandled |-> FALSE,
   grant |-> {}, threw |-> FALSE, wasEnabled |-> FALSE,
   wasInitialized |-> FALSE]

\* The endpoints a getPrivateAppToken call has requested when it awaits stage.
CallsAt(stage) ==
  CASE stage = "fetch" -> <<"fetch">>
    [] stage = "create" -> <<"fetch", "create">>
    [] stage = "update" -> <<"fetch", "update">>
    [] OTHER -> <<>>

OfCall(call) ==
  [Nothing EXCEPT !.kind = call.kind, !.appId = call.appId,
                  !.scopeGroups = call.scopeGroups,
                  !.hadEntry = call.hadEntry, !.stale = call.stale,
                  !.fetched = call.fetched,
                  !.sentScopes = call.sentScopes,
                  !.calls = IF call.kind = "refresh" THEN <<"update">>
                            ELSE CallsAt(call.stage)]

\* The call sent a request to an endpoint.
Sent(call, request, key) ==
  [OfCall(call) EXCEPT !.op = "sent", !.request = request, !.sentKey = key]

\* The promise resolved with token's userTokenKey.
Resolved(call, outcome, token) ==
  [OfCall(call) EXCEPT !.op = "settled", !.outcome = outcome,
                       !.value = token.userTokenKey, !.token = token]

\* The getPrivateAppToken promise resolved with the userTokenKey of the token
\* it stored.  prev says whether the step before was another
\* getPrivateAppToken call storing its token for the same appId.
Stored(call, token) ==
  [Resolved(call, "token", token)
     EXCEPT !.prev = IF /\ last.op = "settled"
                        /\ last.kind = "getToken"
                        /\ last.outcome = "token"
                        /\ last.appId = call.appId
                     THEN "getToken" ELSE ""]

\* The promise resolved with undefined, or rejected.
Ended(call, outcome) ==
  [OfCall(call) EXCEPT !.op = "settled", !.outcome = outcome]

\* The getPrivateAppToken promise rejected with the error its catch block
\* throws, lines 342-358.
Failed(call, cause) ==
  [Ended(call, "error") EXCEPT !.error = apiError(call.appId, cause)]

Max(a, b) == IF a >= b THEN a ELSE b

Copies(B, c) == IF c \in DOMAIN B THEN B[c] ELSE 0

Await(call) == pending (+) SetToBag({call})

Resume(call) == pending (-) SetToBag({call})

\* ------------------------------------------------------------ pure parts

\* hasTokenScopes with || taken for &&: one of the two scopes is enough.
hasEitherTokenScope(scopeGroups) ==
  (USER_TOKEN_READ \in scopeGroups) \/ (USER_TOKEN_WRITE \in scopeGroups)

\* init(), lines 287-290: the condition under which init() enables.
hasTokenScopes(scopeGroups) ==
  (USER_TOKEN_READ \in scopeGroups) /\ (USER_TOKEN_WRITE \in scopeGroups)

\* doesTokenHaveAllScopes (token defined), lines 448-450.
doesTokenHaveAllScopes(token, requestedScopes) ==
  \A scopeGroup \in requestedScopes : scopeGroup \in token.scopeGroups

\* getPrivateAppToken, lines 324-330: the cache-hit condition.
isCacheHit(appId, scopeGroups) ==
  /\ appId \in DOMAIN tokenMap
  /\ doesTokenHaveAllScopes(tokenMap[appId], scopeGroups)

\* needsUpdate that also updates a token expiring in exactly five minutes.
needsUpdateAtMargin(maybeToken, scopeGroups) ==
  \/ now + FiveMinutes >= maybeToken.expiresAt
  \/ ~doesTokenHaveAllScopes(maybeToken, scopeGroups)

\* createOrGetActiveToken, lines 417-424: the existing token is updated.
needsUpdate(maybeToken, scopeGroups) ==
  \/ now + FiveMinutes > maybeToken.expiresAt
  \/ ~doesTokenHaveAllScopes(maybeToken, scopeGroups)

\* refreshDelayMillis without the clamp at 0.
refreshDelayMillisUnclamped(expiresAt) == (expiresAt - FiveMinutes) - now

\* setCacheAndRefresh, lines 380-387.
refreshDelayMillis(expiresAt) == Max((expiresAt - FiveMinutes) - now, 0)

\* setInterval(() => this.refreshToken(appId, userTokenKey, scopeGroups), delay):
\* the handle, which carries what the callback closes over and when it is due.
setInterval(appId, userTokenKey, scopeGroups, delay) ==
  [appId |-> appId, userTokenKey |-> userTokenKey, scopeGroups |-> scopeGroups,
   delay |-> delay, due |-> now + delay]

clearInterval(table, handle) == table \ {handle}

\* clearOld with the clearInterval call left out.
clearOldNever(appId) == timers

\* setCacheAndRefresh, lines 377-379: the interval kept for appId is cleared.
clearOld(appId) ==
  IF appId \in DOMAIN tokenMapIntervalId
  THEN clearInterval(timers, tokenMapIntervalId[appId])
  ELSE timers

\* setCacheAndRefresh that keeps the entry the cache already has for appId.
setCacheAndRefreshKeepsFirst(appId, token, scopeGroups) ==
  LET handle == setInterval(appId, token.userTokenKey, scopeGroups,
                            refreshDelayMillis(token.expiresAt))
  IN /\ tokenMap' = IF appId \in DOMAIN tokenMap THEN tokenMap
                    ELSE MapSet(tokenMap, appId, token)
     /\ tokenMapIntervalId' = MapSet(tokenMapIntervalId, appId, handle)
     /\ timers' = clearOld(appId) \cup {handle}

\* setCacheAndRefresh with a token, lines 376-394.
setCacheAndRefresh(appId, token, scopeGroups) ==
  LET handle == setInterval(appId, token.userTokenKey, scopeGroups,
                            refreshDelayMillis(token.expiresAt))
  IN /\ tokenMap' = MapSet(tokenMap, appId, token)
     /\ tokenMapIntervalId' = MapSet(tokenMapIntervalId, appId, handle)
     /\ timers' = clearOld(appId) \cup {handle}

\* -------------------------------------------------------------- actions

\* initWith that sets the flag from the grant and returns without throwing.
initWithQuiet(grant) ==
  /\ enabled' = hasTokenScopes(grant)
  /\ last' = [Nothing EXCEPT !.op = "init", !.grant = grant,
                             !.wasEnabled = enabled,
                             !.wasInitialized = initialized]

\* init(), lines 283-302.  grant is what scopeGroupsForPersonalAccessKey
\* resolved to; init() throws unless both scopes are granted.
initWith(grant) ==
  /\ enabled' = (IF hasTokenScopes(grant) THEN TRUE ELSE enabled)
  /\ last' = [Nothing EXCEPT !.op = "init", !.grant = grant,
                             !.threw = ~hasTokenScopes(grant),
                             !.wasEnabled = enabled,
                             !.wasInitialized = initialized]

\* The second disjunct is scopeGroupsForPersonalAccessKey rejecting: the
\* await of line 285 rethrows and nothing is assigned.
init ==
  /\ \/ \E grant \in Grants : initWith(grant)
     \/ /\ enabled' = enabled
        /\ last' = [Nothing EXCEPT !.op = "init", !.grant = {"rejected"},
                                   !.threw = TRUE, !.wasEnabled = enabled,
                                   !.wasInitialized = initialized]
  /\ initialized' = TRUE
  /\ UNCHANGED <<tokenMap, tokenMapIntervalId, timers, pending, now>>
  /\ UNCHANGED accountVars

\* What a cleanup() call shows: prev says whether the step before was a
\* cleanup() call too, and hadEntry that this call, or the cleanup() calls
\* right before it, found an entry in the cache.
Cleaned ==
  [Nothing EXCEPT !.op = "cleanup",
                  !.prev = IF last.op = "cleanup" THEN "cleanup" ELSE "",
                  !.hadEntry = \/ tokenMap # EmptyMap
                               \/ last.op = "cleanup" /\ last.hadEntry]

\* A refreshToken promise that is pending when cleanup() runs.
StaleOf(call) ==
  IF call.kind = "refresh" THEN [call EXCEPT !.stale = TRUE] ELSE call

MarkStale(B) ==
  [c \in {StaleOf(x) : x \in DOMAIN B} |->
     IF c.kind = "refresh"
     THEN Copies(B, c) + Copies(B, [c EXCEPT !.stale = FALSE])
     ELSE Copies(B, c)]

\* cleanup that also resets this.enabled.
cleanupDisables ==
  /\ timers' = timers \ {tokenMapIntervalId[a] : a \in DOMAIN tokenMapIntervalId}
  /\ tokenMapIntervalId' = EmptyMap
  /\ tokenMap' = EmptyMap
  /\ pending' = MarkStale(pending)
  /\ last' = Cleaned
  /\ enabled' = FALSE
  /\ UNCHANGED <<initialized, now>>
  /\ UNCHANGED accountVars

\* cleanup that empties both maps without clearing the intervals.
cleanupLeavesIntervals ==
  /\ timers' = timers
  /\ tokenMapIntervalId' = EmptyMap
  /\ tokenMap' = EmptyMap
  /\ pending' = MarkStale(pending)
  /\ last' = Cleaned
  /\ UNCHANGED <<enabled, initialized, now>>
  /\ UNCHANGED accountVars

\* cleanup(), lines 304-308.
cleanup ==
  /\ timers' = timers \ {tokenMapIntervalId[a] : a \in DOMAIN tokenMapIntervalId}
  /\ tokenMapIntervalId' = EmptyMap
  /\ tokenMap' = EmptyMap
  /\ pending' = MarkStale(pending)
  /\ last' = Cleaned
  /\ UNCHANGED <<enabled, initialized, now>>
  /\ UNCHANGED accountVars

\* isDisabled with the guard never taken.
isDisabledNever == FALSE

\* getPrivateAppToken, line 314: the guard of the disabled short-circuit.
isDisabled == ~enabled

\* getPrivateAppToken(appId, scopeGroups) up to its first await, lines
\* 310-338, 408 and 457: the disabled short-circuit, the cache hit, or the
\* fetchPrivateAppUserToken request.
getPrivateAppTokenCall(appId, scopeGroups) ==
  LET call == Call("getToken", appId, scopeGroups, "fetch",
                   appId \in DOMAIN tokenMap)
  IN IF isDisabled
     THEN /\ last' = [Ended(call, "absent") EXCEPT !.calls = <<>>]
          /\ pending' = pending
     ELSE IF isCacheHit(appId, scopeGroups)
     THEN /\ last' = [Resolved(call, "cached", tokenMap[appId])
                        EXCEPT !.calls = <<>>,
                               !.expired = (tokenMap[appId].expiresAt <= now)]
          /\ pending' = pending
     ELSE /\ last' = Sent(call, "fetch", "")
          /\ pending' = Await(call)

getPrivateAppToken(E) ==
  /\ BagCardinality(pending) < MaxInFlight
  /\ \E appId \in E.apps, scopeGroups \in E.scopes :
        getPrivateAppTokenCall(appId, scopeGroups)
  /\ UNCHANGED <<enabled, initialized, tokenMap, tokenMapIntervalId, timers, now>>
  /\ UNCHANGED accountVars

\* isNotFound with every failure taken for "no token".
isAnyFailure(status) == TRUE

\* getExistingToken, lines 459-463: the failure that means "no token".
isNotFound(status) == status = 404

\* createOrGetActiveToken, lines 431-436: the scope groups sent with an update.
updateScopeGroups(maybeToken, scopeGroups) == scopeGroups

\* The answer to fetchPrivateAppUserToken reaches a call: getExistingToken
\* lines 456-465, createOrGetActiveToken lines 409-438, then
\* getPrivateAppToken lines 339-340 (the token is used as it is) or lines
\* 342-358 (the failure is rethrown).
fetchAnswered(call, status, maybeToken) ==
  LET got == [call EXCEPT !.fetched = Fetched(status)]
  IN IF status = 200
     THEN IF needsUpdate(maybeToken, call.scopeGroups)
          THEN LET next == [got EXCEPT !.stage = "update",
                                       !.sentScopes = updateScopeGroups(
                                                        maybeToken, call.scopeGroups)]
               IN /\ pending' = Resume(call) (+) SetToBag({next})
                  /\ last' = [Sent(next, "update", maybeToken.userTokenKey)
                                EXCEPT !.found = maybeToken]
                  /\ UNCHANGED <<tokenMap, tokenMapIntervalId, timers>>
          ELSE /\ setCacheAndRefresh(call.appId, maybeToken, call.scopeGroups)
               /\ pending' = Resume(call)
               /\ last' = [Stored(got, maybeToken) EXCEPT !.found = maybeToken]
     ELSE IF isNotFound(status)
     THEN LET next == [got EXCEPT !.stage = "create",
                                  !.sentScopes = call.scopeGroups]
          IN /\ pending' = Resume(call) (+) SetToBag({next})
             /\ last' = Sent(next, "create", "")
             /\ UNCHANGED <<tokenMap, tokenMapIntervalId, timers>>
     ELSE /\ pending' = Resume(call)
          /\ last' = Failed(got, "axios")
          /\ UNCHANGED <<tokenMap, tokenMapIntervalId, timers>>

getExistingToken(E) ==
  /\ \E call \in DOMAIN pending :
        /\ call.kind = "getToken"
        /\ call.stage = "fetch"
        /\ \/ \E maybeToken \in TokensNow(E, E.scopes) :
                 fetchAnswered(call, 200, maybeToken)
           \/ \E status \in {404, 500} : fetchAnswered(call, status, NoToken)
  /\ UNCHANGED <<enabled, initialized, now>>
  /\ UNCHANGED accountVars

\* The scope groups the awaited create or update request asked for.
AskedScopes(call) == call.sentScopes

\* The scope groups a token that create or update answers can carry.
AnswerScopes(E, call) == IF E.short THEN E.scopes ELSE {AskedScopes(call)}

\* tokenAnswered that drops the cache entry and the interval of appId when
\* the call fails.
tokenAnsweredEvicts(call, ok, token) ==
  IF ok /\ token # NoToken
  THEN /\ setCacheAndRefresh(call.appId, token, call.scopeGroups)
       /\ pending' = Resume(call)
       /\ last' = Stored(call, token)
  ELSE /\ pending' = Resume(call)
       /\ last' = Failed(call, IF ok THEN "error" ELSE "axios")
       /\ tokenMap' = [a \in (DOMAIN tokenMap) \ {call.appId} |-> tokenMap[a]]
       /\ tokenMapIntervalId' =
            [a \in (DOMAIN tokenMapIntervalId) \ {call.appId} |->
               tokenMapIntervalId[a]]
       /\ timers' = clearOld(call.appId)

\* tokenAnswered that hands the token to the caller without calling
\* setCacheAndRefresh.
tokenAnsweredUnstored(call, ok, token) ==
  /\ pending' = Resume(call)
  /\ last' = IF ok /\ token # NoToken THEN Stored(call, token)
              ELSE Failed(call, IF ok THEN "error" ELSE "axios")
  /\ UNCHANGED <<tokenMap, tokenMapIntervalId, timers>>

\* The answer to createPrivateAppUserToken / updatePrivateAppUserToken
\* reaches a getPrivateAppToken call: lines 339-340, where setCacheAndRefresh
\* throws on a missing token (lines 370-375), or the catch of lines 342-358.
tokenAnswered(call, ok, token) ==
  IF ok /\ token # NoToken
  THEN /\ setCacheAndRefresh(call.appId, token, call.scopeGroups)
       /\ pending' = Resume(call)
       /\ last' = Stored(call, token)
  ELSE /\ pending' = Resume(call)
       /\ last' = Failed(call, IF ok THEN "error" ELSE "axios")
       /\ UNCHANGED <<tokenMap, tokenMapIntervalId, timers>>

\* What create / update answer: a token, with the scope groups asked for
\* unless the endpoints may answer others, no token at all, or a failure.
createOrGetActiveToken(E) ==
  /\ \E call \in DOMAIN pending :
        /\ call.kind = "getToken"
        /\ call.stage \in {"create", "update"}
        /\ \/ \E token \in TokensNow(E, AnswerScopes(E, call)) :
                 tokenAnswered(call, TRUE, token)
           \/ tokenAnswered(call, TRUE, NoToken)
           \/ tokenAnswered(call, FALSE, NoToken)
  /\ UNCHANGED <<enabled, initialized, now>>
  /\ UNCHANGED accountVars

\* The interval callback of lines 390-392 runs: refreshToken up to its await,
\* lines 468-483.  The interval stays armed and comes due again after its
\* delay (an interval of 0 ms may run again within the same minute).
refreshTimerFires ==
  /\ BagCardinality(pending) < MaxInFlight
  /\ \E t \in timers :
        /\ t.due <= now \/ t.delay = 0
        /\ LET again == [t EXCEPT !.due = now + Max(t.delay, 1)]
               call == [Call("refresh", t.appId, t.scopeGroups, "update", TRUE)
                          EXCEPT !.sentScopes = t.scopeGroups]
           IN /\ timers' = (timers \ {t}) \cup {again}
              /\ tokenMapIntervalId' =
                   [a \in DOMAIN tokenMapIntervalId |->
                      IF tokenMapIntervalId[a] = t THEN again
                      ELSE tokenMapIntervalId[a]]
              /\ pending' = Await(call)
              /\ last' = Sent(call, "update", t.userTokenKey)
  /\ UNCHANGED <<enabled, initialized, tokenMap, now>>
  /\ UNCHANGED accountVars

\* refreshAnswered that puts the new token in the cache and leaves the
\* interval of the old one running.
refreshAnsweredKeepsTimer(call, ok, newToken) ==
  IF ok /\ newToken # NoToken
  THEN /\ tokenMap' = MapSet(tokenMap, call.appId, newToken)
       /\ pending' = Resume(call)
       /\ last' = Resolved(call, "stored", newToken)
       /\ UNCHANGED <<tokenMapIntervalId, timers>>
  ELSE /\ pending' = Resume(call)
       /\ last' = [Ended(call, "rejected") EXCEPT !.unhandled = TRUE]
       /\ UNCHANGED <<tokenMap, tokenMapIntervalId, timers>>

\* refreshAnswered that drops the cache entry of appId when the update fails.
refreshAnsweredEvicts(call, ok, newToken) ==
  IF ok /\ newToken # NoToken
  THEN /\ setCacheAndRefresh(call.appId, newToken, call.scopeGroups)
       /\ pending' = Resume(call)
       /\ last' = Resolved(call, "stored", newToken)
  ELSE /\ pending' = Resume(call)
       /\ last' = [Ended(call, "rejected") EXCEPT !.unhandled = TRUE]
       /\ tokenMap' = [a \in (DOMAIN tokenMap) \ {call.appId} |-> tokenMap[a]]
       /\ UNCHANGED <<tokenMapIntervalId, timers>>

\* The answer to updatePrivateAppUserToken reaches refreshToken, lines
\* 484-491: the new token is stored, or the promise rejects (the await of
\* line 478 rethrows, or line 487 throws refreshFailed).  The promise is the
\* return value of the interval callback of line 390, which nothing awaits.
refreshAnswered(call, ok, newToken) ==
  IF ok /\ newToken # NoToken
  THEN /\ setCacheAndRefresh(call.appId, newToken, call.scopeGroups)
       /\ pending' = Resume(call)
       /\ last' = Resolved(call, "stored", newToken)
  ELSE /\ pending' = Resume(call)
       /\ last' = [Ended(call, "rejected") EXCEPT !.unhandled = TRUE]
       /\ UNCHANGED <<tokenMap, tokenMapIntervalId, timers>>

refreshToken(E) ==
  /\ \E call \in DOMAIN pending :
        /\ call.kind = "refresh"
        /\ \/ \E newToken \in TokensNow(E, AnswerScopes(E, call)) :
                 refreshAnswered(call, TRUE, newToken)
           \/ refreshAnswered(call, TRUE, NoToken)
           \/ refreshAnswered(call, FALSE, NoToken)
  /\ UNCHANGED <<enabled, initialized, now>>
  /\ UNCHANGED accountVars

\* A minute passes.  An interval that is due runs before the clock moves on.
Tick ==
  /\ now < MaxNow
  /\ \A t \in timers : t.due > now
  /\ now' = now + 1
  /\ last' = Nothing
  /\ UNCHANGED <<enabled, initialized, tokenMap, tokenMapIntervalId, timers,
                 pending>>
  /\ UNCHANGED accountVars

\* ------------------------------------------------ accounts and requests
\* CLIConfiguration (src/src/config/CLIConfiguration.ts) and the helpers that
\* add an account's credential to a request (src/http/index.ts, lines 22-106).
\* undefined is the empty string, a missing number is 0.

\* CLIAccount: the fields getAccount, validate and withAuth read.
Account(id, authType, apiKey, personalAccessKey) ==
  [accountId |-> id, authType |-> authType, apiKey |-> apiKey,
   personalAccessKey |-> personalAccessKey]

\* No account: null, or the {} updateConfigForAccount starts a new entry from.
NoAccount == Account(0, "", "", "")

\* this.config: null, or a CLIConfig with its accounts array.
NoConfig == [loaded |-> FALSE, accounts |-> <<>>]

Config(accounts) == [loaded |-> TRUE, accounts |-> accounts]

\* The auth type and secrets an account entry can come with: each of the
\* three types with its secret, an API-key account without its key, and an
\* entry without an auth type.
Credentials ==
  {<<"personalaccesskey", "", "pak">>, <<"oauth2", "", "">>,
   <<"apikey", "key", "">>, <<"apikey", "", "">>, <<"", "", "">>}

AccountsOf(id) ==
  {Account(id, c[1], c[2], c[3]) : c \in Credentials}

\* What loadConfigFromFile can return: nothing, or a config whose account
\* ids are unique.
FileConfigs ==
  {NoConfig, Config(<<>>)}
    \cup {Config(<<a>>) : a \in AccountsOf(1)}
    \cup {Config(<<a, b>>) : a \in AccountsOf(1), b \in AccountsOf(2)}

\* EnvironmentConfigVariables (src/unnamed/part_001, lines 13-37): what
\* getConfigVariablesFromEnv reads.  A variable that is not set is the empty
\* string; accountId is 0 when parseInt gives NaN; env is what getValidEnv
\* answered.
Variables(apiKey, clientId, clientSecret, pak, id, refresh, env) ==
  [apiKey |-> apiKey, clientId |-> clientId, clientSecret |-> clientSecret,
   personalAccessKey |-> pak, accountId |-> id, refreshToken |-> refresh,
   env |-> env]

NoVariables == Variables("", "", "", "", 0, "", "")

EnvironmentVariables ==
  {Variables(k, c, s, p, id, r, e) :
     k \in {"", "key"}, c \in {"", "client"}, s \in {"", "secret"},
     p \in {"", "pak"}, id \in {0, 1}, r \in {"", "refresh"},
     e \in {"", "prod"}}

\* generateConfig(type, options) as loadConfigFromEnvironment calls it, lines
\* 60-64, 66-73 and 75-79: a config with the one account of that auth type,
\* holding the account id and the secrets it was called with (the OAuth2
\* client id, client secret and refresh token are not among the fields an
\* Account keeps here).
generateConfig(type, id, apiKey, personalAccessKey) ==
  Config(<<Account(id, type, apiKey, personalAccessKey)>>)

\* loadConfigFromEnvironment that looks at the API key before the personal
\* access key and the OAuth2 variables.
loadConfigFromEnvironmentApiKeyFirst(v) ==
  IF v.accountId = 0 THEN NoConfig
  ELSE IF v.env = "" THEN NoConfig
  ELSE IF v.apiKey # ""
  THEN generateConfig("apikey", v.accountId, v.apiKey, "")
  ELSE IF v.personalAccessKey # ""
  THEN generateConfig("personalaccesskey", v.accountId, "", v.personalAccessKey)
  ELSE IF v.clientId # "" /\ v.clientSecret # "" /\ v.refreshToken # ""
  THEN generateConfig("oauth2", v.accountId, "", "")
  ELSE NoConfig

\* loadConfigFromEnvironment(), src/unnamed/part_001, lines 39-84, applied to
\* the variables read; null is NoConfig.
loadConfigFromEnvironment(v) ==
  IF v.accountId = 0 THEN NoConfig
  ELSE IF v.env = "" THEN NoConfig
  ELSE IF v.personalAccessKey # ""
  THEN generateConfig("personalaccesskey", v.accountId, "", v.personalAccessKey)
  ELSE IF v.clientId # "" /\ v.clientSecret # "" /\ v.refreshToken # ""
  THEN generateConfig("oauth2", v.accountId, "", "")
  ELSE IF v.apiKey # ""
  THEN generateConfig("apikey", v.accountId, v.apiKey, "")
  ELSE NoConfig

\* The fields updateConfigForAccount is called with.
UpdatedAccountFields ==
  {Account(id, t, k, "") : id \in {0, 1, 2}, t \in {"", "apikey"},
                           k \in {"", "key2"}}

\* The request options getRequestOptions returns for the caller's options.
RequestOptions(headers, qs) == [headers |-> headers, qs |-> qs]

NoRequest == RequestOptions(EmptyMap, EmptyMap)

BaseRequestOptions ==
  {RequestOptions(h, q) :
     h \in {EmptyMap, MapSet(EmptyMap, "accept", "application/json")},
     q \in {EmptyMap, MapSet(EmptyMap, "limit", "10")}}

\* What a CLIConfiguration or http step shows: the call and its account id,
\* whether it threw, what it returned, whether it wrote the config file, and
\* for withAuth the account found, the options it started from, the token
\* exchange it awaited (network), the access token that answered and the
\* options the request is issued with; for load whether options.useEnv was
\* set, the environment variables read and what loadConfigFromEnvironment
\* returned.
Silent ==
  [op |-> "none", accountId |-> 0, threw |-> FALSE, returned |-> NoAccount,
   found |-> NoAccount, wrote |-> FALSE, base |-> NoRequest,
   network |-> "", accessToken |-> "", issued |-> FALSE,
   request |-> NoRequest, useEnv |-> FALSE, variables |-> NoVariables,
   configFromEnv |-> NoConfig]

\* load(), lines 51-75: from the environment when options.useEnv is set and
\* the environment describes an account, from the config file otherwise.
load ==
  /\ \/ \E variables \in EnvironmentVariables :
           LET configFromEnv == loadConfigFromEnvironment(variables)
           IN /\ IF configFromEnv.loaded
                 THEN /\ useEnvConfig' = TRUE
                      /\ config' = configFromEnv
                 ELSE UNCHANGED <<config, useEnvConfig>>
              /\ reply' = [Silent EXCEPT !.op = "load", !.useEnv = TRUE,
                                         !.variables = variables,
                                         !.configFromEnv = configFromEnv]
     \/ \E configFromFile \in FileConfigs :
           /\ useEnvConfig' = FALSE
           /\ config' = configFromFile
           /\ reply' = [Silent EXCEPT !.op = "load"]
  /\ UNCHANGED managerVars

\* The indexes of the entries of accounts with this account id.
IndexesOf(accounts, id) ==
  {i \in DOMAIN accounts : accounts[i].accountId = id}

Min(S) == CHOOSE i \in S : \A j \in S : i <= j

\* getConfigAccountIndex, lines 216-222: findIndex.
getConfigAccountIndex(id) ==
  IF config.loaded /\ IndexesOf(config.accounts, id) # {}
  THEN Min(IndexesOf(config.accounts, id))
  ELSE -1

\* getAccount with a numeric id, lines 163-193: find, or null.
getAccount(id) ==
  IF id # 0 /\ getConfigAccountIndex(id) # -1
  THEN config.accounts[getConfigAccountIndex(id)]
  ELSE NoAccount

\* validate(), lines 112-161, for entries without a name: the config is
\* loaded, every entry has an accountId and no accountId comes twice.
validate ==
  /\ config.loaded
  /\ \A i \in DOMAIN config.accounts :
        /\ config.accounts[i].accountId # 0
        /\ \A j \in 1..(i - 1) :
              config.accounts[j].accountId # config.accounts[i].accountId

\* updateConfigForAccount, lines 300-337: safelyApplyUpdates of each field
\* that is not undefined, apiKey only for an entry that is of type 'apikey'.
nextAccountConfig(current, fields) ==
  LET typed == [current EXCEPT !.accountId = fields.accountId,
                               !.authType = IF fields.authType # ""
                                            THEN fields.authType ELSE @]
  IN [typed EXCEPT !.apiKey = IF typed.authType = "apikey" /\ fields.apiKey # ""
                              THEN fields.apiKey ELSE @,
                   !.personalAccessKey = IF fields.personalAccessKey # ""
                                         THEN fields.personalAccessKey ELSE @]

\* updateConfigForAccount, lines 343-357: the entry of an account that is in
\* the config is replaced and the completed entry is pushed as well; for an
\* account that is not in the config nothing is done.
updatedAccounts(accounts, index, completed) ==
  IF index # -1
  THEN Append([accounts EXCEPT ![index] = completed], completed)
  ELSE accounts

\* updateConfigForAccount(updatedAccountFields, writeUpdate), lines 254-364;
\* write(), lines 100-110, writes the file unless the config is from the
\* environment.
updateConfigForAccount ==
  /\ Len(config.accounts) < MaxAccounts
  /\ \E fields \in UpdatedAccountFields, writeUpdate \in BOOLEAN :
        LET told == [Silent EXCEPT !.op = "updateConfigForAccount",
                                   !.accountId = fields.accountId]
            current == getAccount(fields.accountId)
            completed == nextAccountConfig(current, fields)
        IN IF fields.accountId = 0
           THEN /\ reply' = [told EXCEPT !.threw = TRUE]
                /\ UNCHANGED config
           ELSE IF ~config.loaded
           THEN /\ reply' = told
                /\ UNCHANGED config
           ELSE /\ config' = [config EXCEPT !.accounts =
                                updatedAccounts(@, getConfigAccountIndex(
                                                     fields.accountId), completed)]
                /\ reply' = [told EXCEPT !.returned = completed,
                                         !.found = current,
                                         !.wrote = writeUpdate /\ ~useEnvConfig]
  /\ UNCHANGED useEnvConfig
  /\ UNCHANGED managerVars

\* The string a number is sent as.
String(n) ==
  CASE n = 0 -> "0" [] n = 1 -> "1" [] n = 2 -> "2" [] OTHER -> "n"

\* withPortalId, lines 59-72.
withPortalId(portalId, requestOptions) ==
  [requestOptions EXCEPT !.qs = MapSet(@, "portalId", String(portalId))]

\* withPersonalAccessKey, lines 44-57, and withOauth, lines 33-41: the
\* Authorization header made of the access token.
withBearer(accessToken, requestOptions) ==
  [requestOptions EXCEPT
     !.headers = MapSet(@, "Authorization", "Bearer " \o accessToken)]

\* withAuth, lines 98-105: the stored API key as the hapikey parameter.
withApiKey(apiKey, requestOptions) ==
  [requestOptions EXCEPT !.qs = MapSet(@, "hapikey", apiKey)]

\* authType that takes every auth type for 'personalaccesskey'.
isPersonalAccessKeyAlways(authType) == TRUE

\* withAuth, line 90.
isPersonalAccessKey(authType) == authType = "personalaccesskey"

\* withAuth(accountId, options), lines 74-106, and the request its caller
\* issues with what it returns (lines 121-181).  base is what
\* getRequestOptions returned; exchange is what
\* accessTokenForPersonalAccessKey or oauth.accessToken() answered ("" when
\* it rejected); oauth says whether getOauthManager returned a manager.
withAuthOf(id, base, exchange, oauth) ==
  LET accountConfig == getAccount(id)
      told == [Silent EXCEPT !.op = "withAuth", !.accountId = id,
                             !.found = accountConfig, !.base = base]
      requestOptions == withPortalId(id, base)
      sends(network, options) ==
        [told EXCEPT !.network = network, !.issued = TRUE, !.request = options,
                     !.accessToken = IF network = "" THEN "" ELSE exchange]
      throws(network) == [told EXCEPT !.network = network, !.threw = TRUE]
  IN IF accountConfig = NoAccount
     THEN throws("")
     ELSE IF isPersonalAccessKey(accountConfig.authType)
     THEN IF exchange = "" THEN throws("personalAccessKey")
          ELSE sends("personalAccessKey", withBearer(exchange, requestOptions))
     ELSE IF accountConfig.authType = "oauth2"
     THEN IF ~oauth THEN throws("")
          ELSE IF exchange = "" THEN throws("oauth")
          ELSE sends("oauth", withBearer(exchange, requestOptions))
     ELSE sends("", withApiKey(accountConfig.apiKey, requestOptions))

withAuth ==
  /\ \E id \in {1, 2}, base \in BaseRequestOptions,
        exchange \in {"", "token1", "token2"}, oauth \in BOOLEAN :
        reply' = withAuthOf(id, base, exchange, oauth)
  /\ UNCHANGED <<config, useEnvConfig>>
  /\ UNCHANGED managerVars

\* The state after the constructors: PrivateAppUserTokenManager, lines
\* 276-281, and CLIConfiguration, lines 34-39.
Init ==
  /\ enabled = FALSE
  /\ initialized = FALSE
  /\ tokenMap = EmptyMap
  /\ tokenMapIntervalId = EmptyMap
  /\ timers = {}
  /\ pending = EmptyBag
  /\ now = 0
  /\ last = Nothing
  /\ config = NoConfig
  /\ useEnvConfig = FALSE
  /\ reply = Silent

NextWith(E) ==
  \/ init
  \/ cleanup
  \/ getPrivateAppToken(E)
  \/ getExistingToken(E)
  \/ createOrGetActiveToken(E)
  \/ refreshTimerFires
  \/ refreshToken(E)
  \/ Tick

Next == NextWith(MainInputs)

Spec == Init /\ [][Next]_vars

NextFresh == NextWith(FreshInputs)

SpecFresh == Init /\ [][NextFresh]_vars

NextMargin == NextWith(MarginInputs)

SpecMargin == Init /\ [][NextMargin]_vars

NextTwoApps == NextWith(TwoAppInputs)

SpecTwoApps == Init /\ [][NextTwoApps]_vars

NextShort == NextWith(ShortInputs)

SpecShort == Init /\ [][NextShort]_vars

NextDelay == NextWith(DelayInputs)

SpecDelay == Init /\ [][NextDelay]_vars

NextAccount ==
  \/ load
  \/ updateConfigForAccount
  \/ withAuth

SpecAccount == Init /\ [][NextAccount]_vars
\* ---------------------------------------------------------------- claims

BothTokenScopes(grant) ==
  (USER_TOKEN_READ \in grant) /\ (USER_TOKEN_WRITE \in grant)

TimersOf(appId) == {t \in timers : t.appId = appId}

\* C1: while the manager is not enabled (never initialized, or init() found a
\* token-management scope missing) every getPrivateAppToken call returns
\* undefined, no endpoint request is sent or pending, and the cache and the
\* timers are empty.
C1_DisabledShortCircuit ==
  ~enabled =>
     /\ tokenMap = EmptyMap
     /\ tokenMapIntervalId = EmptyMap
     /\ timers = {}
     /\ pending = EmptyBag
     /\ last.op # "sent"
     /\ (last.op = "settled" =>
           /\ last.kind = "getToken"
           /\ last.outcome = "absent"
           /\ last.calls = <<>>
           /\ last.value = "")

\* C1 witness: init() has found a scope missing and a getPrivateAppToken call
\* has just returned undefined.
C1_Witness ==
  /\ initialized
  /\ ~enabled
  /\ last.op = "settled"
  /\ last.kind = "getToken"
  /\ last.outcome = "absent"

\* C2 (as claimed): a record written to the cache over another record of the
\* same appId has a scope set that contains the scope set of the record it
\* replaces.  Stated for the records the manager got from a create or update
\* request of its own (a getPrivateAppToken call or a background refresh),
\* so that no change of the remote token by somebody else is involved.
C2_ScopeMonotonicity ==
  [][(/\ last'.op = "settled"
      /\ last'.outcome \in {"token", "stored"}
      /\ last'.calls # <<"fetch">>
      /\ last'.appId \in DOMAIN tokenMap)
        => tokenMap[last'.appId].scopeGroups
              \subseteq tokenMap'[last'.appId].scopeGroups]_vars

\* C3 (as claimed): a refreshToken promise that was pending when cleanup() ran
\* does not write to the token cache when it settles.
C3_ShutdownSilencesRefresh ==
  [][(last'.op = "settled" /\ last'.kind = "refresh" /\ last'.stale)
        => tokenMap' = tokenMap]_vars

\* C4 (as claimed): no record whose expiresAt is at or before the current time
\* is put into the token cache.
C4_NoPrematureCaching ==
  [][\A a \in DOMAIN tokenMap' :
        (a \notin DOMAIN tokenMap \/ tokenMap'[a] # tokenMap[a])
           => tokenMap'[a].expiresAt > now]_vars

\* C5: every appId has at most one interval that was not cleared, the one
\* tokenMapIntervalId keeps for it, and right after a record was stored for
\* an appId exactly one interval is outstanding for it.
C5_OneTimerPerKey ==
  /\ \A t \in timers : Cardinality(TimersOf(t.appId)) = 1
  /\ \A t \in timers :
        t.appId \in DOMAIN tokenMapIntervalId /\ tokenMapIntervalId[t.appId] = t
  /\ (last.op = "settled" /\ last.outcome \in {"token", "stored"})
        => Cardinality(TimersOf(last.appId)) = 1

\* C5 witness: a refresh whose interval was still armed has stored its token
\* and armed again, and one interval is outstanding.
C5_Witness ==
  /\ last.op = "settled"
  /\ last.kind = "refresh"
  /\ last.outcome = "stored"
  /\ ~last.stale
  /\ Cardinality(TimersOf(last.appId)) = 1

\* C6 (as claimed): after init() the manager is enabled if and only if the
\* grants hold both token-management scopes.
C6_InitEnablesIff ==
  last.op = "init" => (enabled <=> BothTokenScopes(last.grant))

\* C6 (amended): after init() the manager is enabled if and only if it was
\* enabled before the call or the grants hold both token-management scopes.
C6_InitEnablesIffNotYetEnabled ==
  last.op = "init" =>
     (enabled <=> (last.wasEnabled \/ BothTokenScopes(last.grant)))

\* C6 witness: init() on a manager that was not enabled found only the read
\* scope and left it not enabled.
C6_Witness ==
  /\ last.op = "init"
  /\ ~last.wasEnabled
  /\ last.grant = {USER_TOKEN_READ}
  /\ ~enabled

\* C7 (as claimed): init() never throws.
C7_InitNeverThrows ==
  last.op = "init" => ~last.threw

\* C7 (amended): init() throws exactly when the scope check fails or a
\* token-management scope is missing, and then leaves this.enabled as it was.
C7_InitThrowsWhenScopesMissing ==
  last.op = "init" =>
     /\ last.threw <=> ~BothTokenScopes(last.grant)
     /\ last.threw => (enabled = last.wasEnabled)

\* C7 witness: the scope check failed, init() threw, the manager is not
\* enabled.
C7_Witness ==
  /\ last.op = "init"
  /\ last.grant = {"rejected"}
  /\ last.threw
  /\ ~enabled

C9_NoExpiredCacheHit ==
  (last.op = "settled" /\ last.outcome = "cached") => ~last.expired

\* C10: a fetch answered 404 makes the call send one create request with
\* exactly the scope groups asked for and no update request; the created
\* record is stored under appId and one interval is armed for it; any other
\* fetch failure sends no create request and ends the call with an error.
C10_NotFoundCreates ==
  /\ last.fetched = "notFound" =>
        /\ last.kind = "getToken"
        /\ last.calls = <<"fetch", "create">>
        /\ last.op = "sent" =>
              /\ last.request = "create"
              /\ last.sentScopes = last.scopeGroups
        /\ (last.op = "settled" /\ last.outcome = "token") =>
              /\ last.appId \in DOMAIN tokenMap
              /\ tokenMap[last.appId] = last.token
              /\ last.value = last.token.userTokenKey
              /\ TimersOf(last.appId) = {tokenMapIntervalId[last.appId]}
              /\ tokenMapIntervalId[last.appId].userTokenKey = last.value
  /\ last.fetched = "failed" =>
        /\ last.op = "settled"
        /\ last.outcome = "error"
        /\ last.calls = <<"fetch">>
  /\ last.request = "create" => last.fetched = "notFound"
  /\ \A call \in DOMAIN pending :
        call.stage = "create" => call.fetched = "notFound"

\* C10 witness: a call that began with no cache entry for its appId, whose
\* fetch was answered 404, has returned the created token, now cached.
C10_Witness ==
  /\ last.op = "settled"
  /\ last.kind = "getToken"
  /\ ~last.hadEntry
  /\ last.fetched = "notFound"
  /\ last.outcome = "token"
  /\ tokenMap[last.appId] = last.token
\* C11: when the fetch of a getPrivateAppToken call is answered with a token,
\* the call never sends a create request; it sends an update request, with
\* the userTokenKey of the token found, exactly when that token expires in
\* less than five minutes or lacks a scope group asked for; otherwise it
\* sends nothing more and returns the token found, which is cached.
C11_FoundTokenUpdatedIffNeeded ==
  /\ last.fetched = "found" =>
        /\ last.kind = "getToken"
        /\ last.calls \in {<<"fetch">>, <<"fetch", "update">>}
        /\ last.request # "create"
  /\ last.found # NoToken =>
        LET soon == last.found.expiresAt - now < FiveMinutes
            covers == last.scopeGroups \subseteq last.found.scopeGroups
        IN IF soon \/ ~covers
           THEN /\ last.op = "sent"
                /\ last.request = "update"
                /\ last.sentKey = last.found.userTokenKey
                /\ last.calls = <<"fetch", "update">>
           ELSE /\ last.op = "settled"
                /\ last.outcome = "token"
                /\ last.calls = <<"fetch">>
                /\ last.token = last.found
                /\ last.value = last.found.userTokenKey
                /\ tokenMap[last.appId] = last.found
  /\ (last.kind = "getToken" /\ last.request = "update")
        => last.fetched = "found"
  /\ \A call \in DOMAIN pending :
        /\ call.fetched = "found" => call.stage = "update"
        /\ (call.kind = "getToken" /\ call.stage = "update")
              => call.fetched = "found"

\* C11 witness: a fetch was answered with a token that expires in exactly
\* five minutes and has every scope group asked for, and the call returned it
\* without a create or an update request.
C11_Witness ==
  /\ last.op = "settled"
  /\ last.kind = "getToken"
  /\ last.found # NoToken
  /\ last.found.expiresAt = now + FiveMinutes
  /\ last.scopeGroups = {"a", "b"}
  /\ last.calls = <<"fetch">>
  /\ last.value = last.found.userTokenKey

\* C12 (as claimed): the scope groups a getPrivateAppToken call sends with an
\* update request are the union of the scope groups of the token found and
\* the scope groups asked for.
C12_UpdateSendsUnion ==
  (last.op = "sent" /\ last.kind = "getToken" /\ last.request = "update")
     => last.sentScopes = last.found.scopeGroups \cup last.scopeGroups

\* C13: a getPrivateAppToken call of an enabled manager whose fetch, create
\* or update request fails (or is answered without a token) rejects with one
\* error that carries the accountId, the appId and a diagnostic string, and
\* the call is over: it has sent the fetch request once and at most one
\* create or update request, and it sends nothing more.
C13_OneErrorNoRetry ==
  [][/\ (last'.op = "settled" /\ last'.kind = "getToken"
                              /\ last'.outcome = "error") =>
          /\ enabled
          /\ last'.error.accountId = accountId
          /\ last'.error.appId = last'.appId
          /\ last'.error.messageDetail # ""
          /\ last'.value = ""
          /\ last'.calls \in {<<"fetch">>, <<"fetch", "create">>,
                               <<"fetch", "update">>}
          /\ BagCardinality(pending') = BagCardinality(pending) - 1
     /\ (last'.op = "sent" /\ last'.kind = "getToken") =>
          /\ last'.calls \in {<<"fetch">>, <<"fetch", "create">>,
                               <<"fetch", "update">>}
          /\ last'.request = last'.calls[Len(last'.calls)]
          /\ BagCardinality(pending') =
                BagCardinality(pending) + (IF last'.request = "fetch" THEN 1 ELSE 0)
     /\ (last'.kind = "getToken" /\ last'.outcome # "error")
          => last'.error = NoError]_vars

\* C13 witness: the update request of a call failed, and the call rejected
\* with an error that carries the accountId, the appId and the message of
\* the failure.
C13_Witness ==
  /\ last.op = "settled"
  /\ last.kind = "getToken"
  /\ last.outcome = "error"
  /\ last.calls = <<"fetch", "update">>
  /\ last.error = [identifier |-> "errors.apiError", accountId |-> accountId,
                   appId |-> last.appId,
                   messageDetail |-> "api error with context"]

\* C14: a background refresh whose update request fails, or is answered
\* without a token, leaves the token cache as it was: the entry of its appId
\* keeps its userTokenKey, scope groups and expiresAt.
C14_FailedRefreshKeepsEntry ==
  [][(last'.op = "settled" /\ last'.kind = "refresh"
                          /\ last'.outcome = "rejected")
        => tokenMap' = tokenMap]_vars

\* C14 witness: a refresh has just failed while the cache holds an entry for
\* its appId.
C14_Witness ==
  /\ last.op = "settled"
  /\ last.kind = "refresh"
  /\ last.outcome = "rejected"
  /\ ~last.stale
  /\ last.appId \in DOMAIN tokenMap

\* C15 (as claimed): right after a background refresh for an appId has
\* failed, with no getPrivateAppToken call having done anything since, the
\* scheduler does not start another refresh for that appId.
C15_NoRefreshAfterFailedRefresh ==
  [][(last.op = "settled" /\ last.kind = "refresh"
                         /\ last.outcome = "rejected")
        => ~(last'.op = "sent" /\ last'.kind = "refresh"
                               /\ last'.appId = last.appId)]_vars

\* C16 (as claimed): no refreshToken promise ends in a rejection that
\* nothing handles.
C16_RefreshFailureIsCaught ==
  (last.op = "settled" /\ last.kind = "refresh") => ~last.unhandled

\* C17 (as claimed): a refreshToken promise that was pending when cleanup()
\* ran arms no interval when it settles.
C17_NoTimerAfterShutdown ==
  [][(last'.op = "settled" /\ last'.kind = "refresh" /\ last'.stale)
        => timers' \subseteq timers]_vars

\* C18: cleanup() leaves no interval outstanding and no entry in the cache or
\* in the interval table, and does not throw; a cleanup() call right after
\* another one changes nothing of the manager's state.
C18_ShutdownClearsAndIsIdempotent ==
  [][last'.op = "cleanup" =>
        /\ timers' = {}
        /\ tokenMapIntervalId' = EmptyMap
        /\ tokenMap' = EmptyMap
        /\ ~last'.threw
        /\ last.op = "cleanup" =>
              UNCHANGED <<enabled, initialized, tokenMap, tokenMapIntervalId,
                          timers, pending, now>>]_vars

\* C18 witness: cleanup() found an entry in the cache, and was then called a
\* second time.
C18_Witness ==
  /\ last.op = "cleanup"
  /\ last.prev = "cleanup"
  /\ last.hadEntry
  /\ timers = {}
  /\ tokenMap = EmptyMap

\* C19: when a getPrivateAppToken call returns the token it obtained, the
\* cache entry of its appId is that token, whatever another call stored
\* there while this one was pending, and the only interval outstanding for
\* the appId is the one armed for that token.
C19_LastWriteWins ==
  (last.op = "settled" /\ last.kind = "getToken" /\ last.outcome = "token") =>
     /\ last.calls # <<>>
     /\ last.appId \in DOMAIN tokenMap
     /\ tokenMap[last.appId] = last.token
     /\ Cardinality(TimersOf(last.appId)) = 1
     /\ \A t \in TimersOf(last.appId) :
           /\ t.userTokenKey = last.token.userTokenKey
           /\ t.scopeGroups = last.scopeGroups

\* C19 witness: two calls for one appId began with no cache entry for it and
\* both requested the endpoints; one stored its token, and in the next step
\* the other has stored its own, which is the cache entry now.
C19_Witness ==
  /\ last.op = "settled"
  /\ last.kind = "getToken"
  /\ last.outcome = "token"
  /\ ~last.hadEntry
  /\ last.prev = "getToken"
  /\ last.scopeGroups = {"a"}
  /\ last.token.scopeGroups = {"a"}
  /\ tokenMap[last.appId] = last.token
  /\ pending = EmptyBag

\* The entry and the interval an appId has.
KeyState(b, cache, table, armed) ==
  <<IF b \in DOMAIN cache THEN {cache[b]} ELSE {},
    IF b \in DOMAIN table THEN {table[b]} ELSE {},
    {t \in armed : t.appId = b}>>

\* C20: a step of a getPrivateAppToken call or of a background refresh for
\* an appId, whether it sends a request, stores a token or fails, leaves the
\* cache entry and the interval of every other appId as they were.
C20_KeysIndependent ==
  [][last'.kind \in {"getToken", "refresh"} =>
        \A b \in TwoAppInputs.apps \ {last'.appId} :
           KeyState(b, tokenMap', tokenMapIntervalId', timers')
             = KeyState(b, tokenMap, tokenMapIntervalId, timers)]_vars

\* C20 witness: a background refresh for one appId has stored its token
\* while another appId has a cache entry and an interval.
C20_Witness ==
  /\ last.op = "settled"
  /\ last.kind = "refresh"
  /\ last.outcome = "stored"
  /\ \E b \in DOMAIN tokenMap :
        /\ b # last.appId
        /\ TimersOf(b) # {}

\* C21: resolving an account's credential fails when the account has no
\* configuration, when its auth type is none of the three recognized ones
\* and when its stored secret is missing: every request withAuth lets its
\* caller issue is that of an account with a recognized auth type and
\* carries a credential that is not empty.
\* withAuth (src/http/index.ts, lines 98-105) treats every auth type other
\* than 'personalaccesskey' and 'oauth2' as 'apikey' and attaches the stored
\* apiKey without looking at it.
AuthTypes == {"personalaccesskey", "oauth2", "apikey"}

Credential(request) ==
  IF "Authorization" \in DOMAIN request.headers
  THEN request.headers["Authorization"]
  ELSE IF "hapikey" \in DOMAIN request.qs THEN request.qs["hapikey"]
  ELSE ""

C21_NoRequestWithoutCredential ==
  (reply.op = "withAuth" /\ reply.issued) =>
     /\ reply.found # NoAccount
     /\ reply.found.authType \in AuthTypes
     /\ Credential(reply.request) \notin {"", "Bearer "}

\* C22: every arm uses the delay max(expiresAt - now - 5 minutes, 0): the
\* timer armed for the record just stored has a delay that is never
\* negative, that is 0 when the record expires within five minutes or has
\* already expired, and that otherwise makes the timer due exactly five
\* minutes before expiresAt.
C22_ArmDelayIsClampedMargin ==
  (last.op = "settled" /\ last.outcome \in {"token", "stored"}) =>
     LET handle == tokenMapIntervalId[last.appId]
         left == last.token.expiresAt - now
     IN /\ handle \in timers
        /\ handle.delay >= 0
        /\ handle.delay = Max(left - FiveMinutes, 0)
        /\ left <= FiveMinutes => handle.delay = 0
        /\ left > FiveMinutes =>
              /\ handle.due = last.token.expiresAt - FiveMinutes
              /\ handle.due > now

\* C22 witness: a record that has already expired is stored and its timer is
\* armed with the delay 0.
C22_Witness ==
  /\ last.op = "settled"
  /\ last.outcome \in {"token", "stored"}
  /\ last.token.expiresAt < now
  /\ tokenMapIntervalId[last.appId].delay = 0

\* C23 (as claimed): one arm makes the refresh callback run at most once:
\* right after the timer of an appId has run its callback, with nothing
\* stored or armed since, the same timer does not run the callback again, so
\* no two background refreshes from one arm are in flight together.
\* The timer is a setInterval (src/http/index.ts, lines 390-393), which runs
\* its callback every delay milliseconds until it is cleared.
C23_ArmRunsCallbackOnce ==
  [][(last.op = "sent" /\ last.kind = "refresh")
        => ~(last'.op = "sent" /\ last'.kind = "refresh"
                               /\ last'.appId = last.appId
                               /\ tokenMap' = tokenMap)]_vars

\* C24 (as claimed): a background refresh always calls
\* updatePrivateAppUserToken and passes exactly the scope groups of the
\* record cached for its appId when the callback runs.
\* The callback passes the scopeGroups argument of the call that armed the
\* timer (src/http/index.ts, lines 390-393, 468-483), which is not the
\* scope set of the cached record when a found token with more scope groups
\* was cached as it is.
C24_RefreshSendsCachedScopes ==
  (last.op = "sent" /\ last.kind = "refresh"
                    /\ last.appId \in DOMAIN tokenMap) =>
     /\ last.request = "update"
     /\ last.sentScopes = tokenMap[last.appId].scopeGroups

\* C25: every successful acquisition, a getPrivateAppToken call that went to
\* the endpoints (its token found and used as it is, created or updated) or
\* a background refresh, ends with the record stored in the cache and a
\* timer armed for it, and the value getPrivateAppToken returns is the
\* userTokenKey of the stored record.
C25_AcquiredTokenIsStoredAndArmed ==
  (last.op = "settled" /\ last.outcome \in {"token", "stored"}) =>
     /\ last.appId \in DOMAIN tokenMap
     /\ tokenMap[last.appId] = last.token
     /\ last.appId \in DOMAIN tokenMapIntervalId
     /\ tokenMapIntervalId[last.appId] \in timers
     /\ tokenMapIntervalId[last.appId].appId = last.appId
     /\ tokenMapIntervalId[last.appId].userTokenKey = last.token.userTokenKey
     /\ last.kind = "getToken" =>
           last.value = tokenMap[last.appId].userTokenKey

\* C25 witness: a getPrivateAppToken call that had an entry in the cache and
\* went to the endpoints all the same has returned the key of the token it
\* was answered, which is the key of the record now cached and armed.
C25_Witness ==
  /\ last.op = "settled"
  /\ last.kind = "getToken"
  /\ last.outcome = "token"
  /\ last.hadEntry
  /\ last.appId \in DOMAIN tokenMap
  /\ last.value = tokenMap[last.appId].userTokenKey
  /\ tokenMapIntervalId[last.appId].userTokenKey = last.value
  /\ last.value = "k2"

\* The entries of a header or query map other than those under keys.
Others(map, keys) == [k \in (DOMAIN map) \ keys |-> map[k]]

\* C26: the strategy is selected from the auth type only.  A personal access
\* key account gets a bearer Authorization header made of the token of the
\* personal access key exchange, an OAuth2 account one made of the token of
\* its OAuth manager, and an API-key account gets its stored key attached
\* directly, with no network call and no Authorization header.  In every
\* case the portalId query parameter is added and the caller's other headers
\* and query parameters are kept.
C26_StrategyByAuthType ==
  (reply.op = "withAuth" /\ reply.issued) =>
     /\ reply.found.authType = "personalaccesskey" =>
           /\ reply.network = "personalAccessKey"
           /\ reply.request.headers =
                MapSet(reply.base.headers, "Authorization",
                       "Bearer " \o reply.accessToken)
           /\ Others(reply.request.qs, {"portalId"}) = reply.base.qs
     /\ reply.found.authType = "oauth2" =>
           /\ reply.network = "oauth"
           /\ reply.request.headers =
                MapSet(reply.base.headers, "Authorization",
                       "Bearer " \o reply.accessToken)
           /\ Others(reply.request.qs, {"portalId"}) = reply.base.qs
     /\ reply.found.authType = "apikey" =>
           /\ reply.network = ""
           /\ reply.request.headers = reply.base.headers
           /\ "Authorization" \notin DOMAIN reply.request.headers
           /\ reply.request.qs["hapikey"] = reply.found.apiKey
           /\ Others(reply.request.qs, {"portalId", "hapikey"}) = reply.base.qs
     /\ reply.request.qs["portalId"] = String(reply.accountId)
     /\ reply.found.accountId = reply.accountId

\* C26 witness: the request of an API-key account is issued with the stored
\* key while the caller came with a header and a query parameter of its own.
C26_Witness ==
  /\ reply.op = "withAuth"
  /\ reply.issued
  /\ reply.found.authType = "apikey"
  /\ reply.request.qs["hapikey"] = "key"
  /\ reply.base.headers # EmptyMap
  /\ reply.base.qs # EmptyMap

\* C27: the cache and the scheduler are in step: an appId has an outstanding
\* timer exactly when it has a cache entry, it has one timer only, and the
\* userTokenKey the timer's callback closes over is that of the cached
\* record.
C27_CacheAndTimersInStep ==
  /\ DOMAIN tokenMapIntervalId = DOMAIN tokenMap
  /\ {t.appId : t \in timers} = DOMAIN tokenMap
  /\ \A a \in DOMAIN tokenMap :
        /\ TimersOf(a) = {tokenMapIntervalId[a]}
        /\ tokenMapIntervalId[a].userTokenKey = tokenMap[a].userTokenKey

\* C27 witness: a background refresh has stored a token with the key k2
\* while another refresh is in flight, and the timer armed for the appId
\* carries the key of the cached record.
C27_Witness ==
  /\ last.op = "settled"
  /\ last.kind = "refresh"
  /\ last.outcome = "stored"
  /\ last.appId \in DOMAIN tokenMap
  /\ tokenMapIntervalId[last.appId].userTokenKey = "k2"
  /\ tokenMap[last.appId].userTokenKey = "k2"
  /\ \E call \in DOMAIN pending : call.kind = "refresh"

\* C28: a getPrivateAppToken call that ends in an error leaves the token
\* cache and the timers exactly as they were: no step of a call other than
\* the one that resolves with a token from the endpoints changes tokenMap,
\* tokenMapIntervalId or the armed intervals.
C28_FailedCallChangesNothing ==
  [][(last'.kind = "getToken"
        /\ ~(last'.op = "settled" /\ last'.outcome = "token"))
       => /\ tokenMap' = tokenMap
          /\ tokenMapIntervalId' = tokenMapIntervalId
          /\ timers' = timers]_vars

\* C28 witness: a getPrivateAppToken call has ended in an error while the
\* cache holds a record for its appId and the timer of that record is armed.
C28_Witness ==
  /\ last.op = "settled"
  /\ last.kind = "getToken"
  /\ last.outcome = "error"
  /\ last.hadEntry
  /\ last.appId \in DOMAIN tokenMap
  /\ TimersOf(last.appId) # {}

\* C29 (as claimed): the record of a token getPrivateAppToken returns covers
\* every scope group the call required: a token that
\* createPrivateAppUserToken or updatePrivateAppUserToken answered without
\* one of the required scope groups is not handed to the caller as success.
\* getPrivateAppToken compares scope groups for the cached and the fetched
\* token only (src/http/index.ts, lines 324-330, 421-424); what create and
\* update answer is cached and returned as it is (lines 335-341, 406-437).
C29_ReturnedTokenCoversScopes ==
  (last.op = "settled" /\ last.kind = "getToken"
                       /\ last.outcome \in {"token", "cached"}) =>
     \A scopeGroup \in last.scopeGroups : scopeGroup \in last.token.scopeGroups

\* C30 (as claimed): after any sequence of updateConfigForAccount calls on a
\* loaded config whose account ids are unique, config.accounts has exactly
\* one entry for the account id just updated and validate() finds no
\* duplicate.
\* updateConfigForAccount (src/src/config/CLIConfiguration.ts, lines
\* 343-357) replaces the entry of an account that is in the config and then
\* pushes the same entry again, and does neither for an account that is not.
C30_OneEntryPerUpdatedAccount ==
  (reply.op = "updateConfigForAccount" /\ ~reply.threw /\ config.loaded) =>
     /\ Cardinality(IndexesOf(config.accounts, reply.accountId)) = 1
     /\ validate

====
